---- MODULE Spec2Model ----
(***************************************************************************)
(* The risk-observation engine of src/agents/observer_agent.py:           *)
(* RiskAnalyzer, AlertManager, DatabaseManager and ObserverAgent.         *)
(*                                                                         *)
(* Time is counted in whole hours; a datetime is the number of hours      *)
(* since a midnight, so its hour of day is the value modulo 24.           *)
(* Amounts and attempt counts are whole numbers; a risk score is held in  *)
(* hundredths (0.92 is 92).                                                *)
(***************************************************************************)
EXTENDS Integers, Sequences, FiniteSets, TLC

VARIABLES
    observed_actions,   \* ObserverAgent.observed_actions, the in-memory cache
    observations,       \* rows of the observations table
    alerts,             \* rows of the alerts table
    stats,              \* ObserverAgent.stats, a defaultdict(int)
    alert_thresholds,   \* AlertManager.alert_thresholds
    is_monitoring,      \* ObserverAgent.is_monitoring
    monitor_threads,    \* number of _background_monitor threads started
    now,                \* what datetime.now() returns
    call,               \* arguments of the latest call
    classification,     \* what analyze_risk returned in the latest call
    observation,        \* the Observation the latest watch_action built
    outcome,            \* how the latest call ended
    returned,           \* what the latest call returned to its caller
    threads,            \* threads calling watch_action at once: where each
                        \* one is in the method, and its local observation
    sweeper,            \* the run of _cleanup_old_observations in progress
    monitors            \* where each _background_monitor thread is in its loop

vars == <<observed_actions, observations, alerts, stats, alert_thresholds,
          is_monitoring, monitor_threads, now, call, classification,
          observation, outcome, returned, threads, sweeper, monitors>>

(***************************************************************************)
(* Bounds of the model.                                                    *)
(***************************************************************************)
MaxAlerts == 2          \* alert rows written in one behaviour
MaxMonitors == 1        \* start_monitoring calls in one behaviour
MaxClock == 252         \* the clock stops advancing here
MaxLimit == 2           \* largest limit passed to get_observations
MaxCallers == 2         \* concurrent callers of watch_action
MaxStarts == 2          \* calls of start_monitoring on one agent

(***************************************************************************)
(* Python values, tagged with their type.                                  *)
(***************************************************************************)
Num(n) == <<"num", n>>
Str(s) == <<"str", s>>
Bool(b) == <<"bool", b>>
DateTime(h) == <<"datetime", h>>
PyNone == <<"none", 0>>
Absent == <<"absent", 0>>

TypeOf(v) == v[1]
ValueOf(v) == v[2]

\* dict.get(key, default)
Get(ctx, key, default) == IF key \in DOMAIN ctx THEN ctx[key] ELSE default

\* str.lower() on the strings of the model
Lower(s) ==
    CASE s = "India" -> "india"
      [] s = "Nigeria" -> "nigeria"
      [] s = "Unknown" -> "unknown"
      [] OTHER -> s

(***************************************************************************)
(* RiskAnalyzer                                                            *)
(***************************************************************************)
HighAmount == 10000
HighRiskScore == 80
ManyAttempts == 3
NightFrom == 23
NightUntil == 6
HoursPerDay == 24

SuspiciousCountries == {"nigeria", "somalia", "afghanistan"}

RuleOrder == <<"high_amount", "suspicious_country", "weekend_activity",
               "high_risk_score", "multiple_attempts", "unusual_time">>
RuleNames == {RuleOrder[i] : i \in DOMAIN RuleOrder}

\* value > limit, for a limit that is a number; `one` is what True counts as
\* in the unit of the limit.  A str, None or datetime operand raises TypeError.
GreaterThan(v, limit, one) ==
    CASE TypeOf(v) = "num" -> IF ValueOf(v) > limit THEN "true" ELSE "false"
      [] TypeOf(v) = "bool" ->
            IF (IF ValueOf(v) THEN one ELSE 0) > limit THEN "true" ELSE "false"
      [] OTHER -> "raise"

\* truth value of a Python object
Truthy(v) ==
    CASE TypeOf(v) = "bool" -> ValueOf(v)
      [] TypeOf(v) = "num" -> ValueOf(v) # 0
      [] TypeOf(v) = "str" -> ValueOf(v) # ""
      [] TypeOf(v) = "none" -> FALSE
      [] OTHER -> TRUE

_is_unusual_time(timestamp) ==
    LET hour == timestamp % HoursPerDay
    IN  hour >= NightFrom \/ hour <= NightUntil

\* One rule of risk_rules applied to a context while the clock reads `clock`:
\* "true", "false", or "raise" when the lambda raises.
rule_func(rule_name, ctx, clock) ==
    CASE rule_name = "high_amount" ->
            GreaterThan(Get(ctx, "amount", Num(0)), HighAmount, 1)
      [] rule_name = "suspicious_country" ->
            LET v == Get(ctx, "country", Str(""))
            IN  IF TypeOf(v) # "str" THEN "raise"
                ELSE IF Lower(ValueOf(v)) \in SuspiciousCountries
                     THEN "true" ELSE "false"
      [] rule_name = "weekend_activity" ->
            IF Truthy(Get(ctx, "is_weekend", Bool(FALSE)))
            THEN "true" ELSE "false"
      [] rule_name = "high_risk_score" ->
            GreaterThan(Get(ctx, "risk_score", Num(0)), HighRiskScore, 100)
      [] rule_name = "multiple_attempts" ->
            GreaterThan(Get(ctx, "attempt_count", Num(1)), ManyAttempts, 1)
      [] rule_name = "unusual_time" ->
            LET v == Get(ctx, "timestamp", DateTime(clock))
            IN  IF TypeOf(v) # "datetime" THEN "raise"
                ELSE IF _is_unusual_time(ValueOf(v)) THEN "true" ELSE "false"

\* the loop of analyze_risk over risk_rules.items(), in declaration order
RECURSIVE EvaluateRules(_, _, _, _)
EvaluateRules(rules, ctx, clock, triggered_rules) ==
    IF rules = <<>> THEN triggered_rules
    ELSE EvaluateRules(Tail(rules), ctx, clock,
            IF rule_func(Head(rules), ctx, clock) = "true"
            THEN Append(triggered_rules, Head(rules))
            ELSE triggered_rules)

RiskLevels == {"LOW", "MEDIUM", "HIGH", "CRITICAL"}

\* the decision table with its top boundary one too high
risk_level_of_shifted(n) ==
    IF n > 3 THEN "CRITICAL"
    ELSE IF n >= 2 THEN "HIGH"
    ELSE IF n >= 1 THEN "MEDIUM"
    ELSE "LOW"

risk_level_of(n) ==
    IF n >= 3 THEN "CRITICAL"
    ELSE IF n >= 2 THEN "HIGH"
    ELSE IF n >= 1 THEN "MEDIUM"
    ELSE "LOW"

\* analyze_risk leaving its loop at the first rule that raises
analyze_risk_aborting(ctx, clock) ==
    LET raising == {i \in DOMAIN RuleOrder :
                        rule_func(RuleOrder[i], ctx, clock) = "raise"}
        upto == IF raising = {} THEN Len(RuleOrder)
                ELSE (CHOOSE i \in raising : \A j \in raising : i <= j) - 1
        triggered_rules ==
            EvaluateRules(SubSeq(RuleOrder, 1, upto), ctx, clock, <<>>)
    IN  [risk_level |-> risk_level_of(Len(triggered_rules)),
         triggered_rules |-> triggered_rules]

analyze_risk(ctx, clock) ==
    LET triggered_rules == EvaluateRules(RuleOrder, ctx, clock, <<>>)
    IN  [risk_level |-> risk_level_of(Len(triggered_rules)),
         triggered_rules |-> triggered_rules]

(***************************************************************************)
(* AlertManager                                                            *)
(***************************************************************************)
DefaultThreshold == 5

DefaultThresholds ==
    [l \in RiskLevels |->
        CASE l = "CRITICAL" -> 0
          [] l = "HIGH" -> 1
          [] l = "MEDIUM" -> 3
          [] l = "LOW" -> 10]

\* a table that was reconfigured: no level alerts at once
RaisedThresholds == [l \in RiskLevels |-> 10]

ThresholdTables == {DefaultThresholds, RaisedThresholds}

\* should_alert without its CRITICAL branch, deciding by the threshold
should_alert_by_threshold(obs, thresholds) ==
    LET risk_level == obs.risk_level
        threshold == IF risk_level \in DOMAIN thresholds
                     THEN thresholds[risk_level] ELSE DefaultThreshold
    IN  threshold <= 0

\* should_alert alerting below CRITICAL only when the threshold is 0
should_alert_counting(obs, thresholds) ==
    LET risk_level == obs.risk_level
        threshold == IF risk_level \in DOMAIN thresholds
                     THEN thresholds[risk_level] ELSE DefaultThreshold
    IN  IF risk_level = "CRITICAL" THEN TRUE
        ELSE threshold <= 0

should_alert(obs, thresholds) ==
    LET risk_level == obs.risk_level
        threshold == IF risk_level \in DOMAIN thresholds
                     THEN thresholds[risk_level] ELSE DefaultThreshold
    IN  IF risk_level = "CRITICAL" THEN TRUE
        ELSE TRUE

\* f"Risk detected for user {user}: {', '.join(triggered_rules)}"
AlertMessage(user, triggered_rules) ==
    <<"Risk detected for user ", user, ": ", triggered_rules>>

\* datetime.isoformat()
IsoFormat(h) == <<"iso", h \div HoursPerDay, h % HoursPerDay>>

\* how sqlite3 stores a Python bool
SqlBool(b) == IF b THEN 1 ELSE 0

\* an alert row whose type and severity are fixed words
AlertRow_generic(id, obs, triggered_rules, clock) ==
    [id |-> id,
     timestamp |-> IsoFormat(clock),
     user |-> obs.user,
     alert_type |-> "risk",
     message |-> AlertMessage(obs.user, triggered_rules),
     severity |-> "HIGH",
     acknowledged |-> SqlBool(FALSE)]

\* an alert row that names no user
AlertRow_unattributed(id, obs, triggered_rules, clock) ==
    [id |-> id,
     timestamp |-> IsoFormat(clock),
     user |-> "system",
     alert_type |-> obs.action,
     message |-> AlertMessage(obs.user, triggered_rules),
     severity |-> obs.risk_level,
     acknowledged |-> SqlBool(FALSE)]

\* the row create_alert inserts; acknowledged takes its column default
AlertRow(id, obs, triggered_rules, clock) ==
    [id |-> id,
     timestamp |-> IsoFormat(clock),
     user |-> obs.user,
     alert_type |-> obs.action,
     message |-> AlertMessage(obs.user, triggered_rules),
     severity |-> obs.risk_level,
     acknowledged |-> SqlBool(FALSE)]

(***************************************************************************)
(* DatabaseManager                                                         *)
(***************************************************************************)
\* json.dumps of one value; a datetime is not JSON serializable
JsonValue(v) ==
    CASE TypeOf(v) = "num" -> <<"number", ValueOf(v)>>
      [] TypeOf(v) = "str" -> <<"string", ValueOf(v)>>
      [] TypeOf(v) = "bool" -> IF ValueOf(v) THEN <<"true", 0>> ELSE <<"false", 0>>
      [] TypeOf(v) = "none" -> <<"null", 0>>
      [] OTHER -> <<"TypeError", 0>>

JsonSerializable(ctx) == \A k \in DOMAIN ctx : TypeOf(ctx[k]) # "datetime"

json_dumps(ctx) == [k \in DOMAIN ctx |-> JsonValue(ctx[k])]

\* The decoding that inverts json_dumps. get_observations does not apply it:
\* it returns the context column as the text that was stored.
json_loads(text) ==
    [k \in DOMAIN text |->
        CASE text[k][1] = "number" -> Num(text[k][2])
          [] text[k][1] = "string" -> Str(text[k][2])
          [] text[k][1] = "true" -> Bool(TRUE)
          [] text[k][1] = "false" -> Bool(FALSE)
          [] OTHER -> PyNone]

\* the row save_observation inserts
ObservationRow(id, obs) ==
    [id |-> id,
     timestamp |-> IsoFormat(obs.timestamp),
     user |-> obs.user,
     action |-> obs.action,
     context |-> json_dumps(obs.context),
     risk_level |-> obs.risk_level,
     alert_triggered |-> SqlBool(obs.alert_triggered),
     processed |-> SqlBool(obs.processed)]

(***************************************************************************)
(* ObserverAgent                                                           *)
(***************************************************************************)
CacheLimit == 1000
RetentionHours == 168

\* an empty dict
EmptyDict == [k \in {} |-> 0]

NoCall == [user |-> "", action |-> "", context |-> EmptyDict, at |-> 0]
NoResult == [risk_level |-> "", triggered_rules |-> <<>>]
NoObservation ==
    [timestamp |-> 0, user |-> "", action |-> "", context |-> EmptyDict,
     risk_level |-> "", alert_triggered |-> FALSE, processed |-> FALSE]

\* What a call handed back: the method, and the list it returned (a call that
\* returns one object returns it as a list of one; a call that raised or
\* returns None returns the empty list).
NoReturn ==
    [method |-> "none", argument |-> PyNone, raised |-> FALSE, error |-> "",
     value |-> <<>>]
Returned(method, value) ==
    [method |-> method, argument |-> PyNone, raised |-> FALSE, error |-> "",
     value |-> value]
Raised(method, error) ==
    [method |-> method, argument |-> PyNone, raised |-> TRUE, error |-> error,
     value |-> <<>>]
\* the answer to a query called with one argument
Answered(method, argument, value) ==
    [method |-> method, argument |-> argument, raised |-> FALSE, error |-> "",
     value |-> value]

\* a caller of watch_action that has not called yet, and no sweep in progress
Idle ==
    [pc |-> "idle", result |-> NoResult, obs |-> NoObservation,
     alerting |-> FALSE, read |-> 0]
NoSweep == [pc |-> "idle", cutoff_time |-> 0, position |-> 0, kept |-> <<>>]

Observation(timestamp, user, action, ctx, risk_level, alert_triggered) ==
    [timestamp |-> timestamp, user |-> user, action |-> action,
     context |-> ctx, risk_level |-> risk_level,
     alert_triggered |-> alert_triggered, processed |-> FALSE]

\* stats[key] += 1 on a defaultdict(int)
Increment(counters, key) ==
    IF key \in DOMAIN counters
    THEN [counters EXCEPT ![key] = @ + 1]
    ELSE counters @@ (key :> 1)

\* stats[key] read without inserting the key
Counter(counters, key) == IF key \in DOMAIN counters THEN counters[key] ELSE 0

\* f'risk_{risk_level.lower()}'
RiskCounter(risk_level) ==
    CASE risk_level = "LOW" -> "risk_low"
      [] risk_level = "MEDIUM" -> "risk_medium"
      [] risk_level = "HIGH" -> "risk_high"
      [] risk_level = "CRITICAL" -> "risk_critical"

\* the append without the pop
CacheInsert_unbounded(cache, obs) == Append(cache, obs)

\* the append followed by pop() in place of pop(0)
CacheInsert_newest_dropped(cache, obs) ==
    LET appended == Append(cache, obs)
    IN  IF Len(appended) > CacheLimit
        THEN SubSeq(appended, 1, Len(appended) - 1) ELSE appended

\* observed_actions.append(observation), then pop(0) when over the limit
CacheInsert(cache, obs) ==
    LET appended == Append(cache, obs)
    IN  IF Len(appended) > CacheLimit THEN Tail(appended) ELSE appended

UpdateStats(counters, obs) ==
    LET total == Increment(counters, "total_observations")
        byrisk == Increment(total, RiskCounter(obs.risk_level))
    IN  IF obs.alert_triggered THEN Increment(byrisk, "total_alerts")
        ELSE byrisk

\* create_alert raising, had watch_action caught it and gone on to record the
\* observation as one that triggered no alert
AfterAlertFailure_recorded(seen) ==
    LET obs == [seen.observation EXCEPT !.alert_triggered = FALSE]
    IN  [seen EXCEPT
            !.observations = Append(@, ObservationRow(Len(@) + 1, obs)),
            !.observed_actions = CacheInsert(@, obs),
            !.outcome = "create_alert raised",
            !.returned = Raised("watch_action", "sqlite3.Error")]

\* create_alert raises: the exception leaves watch_action at once, and the
\* statements after it are not executed
AfterAlertFailure(seen) ==
    [seen EXCEPT !.outcome = "create_alert raised",
                 !.returned = Raised("watch_action", "sqlite3.Error")]

\* what save_observation raises: json.dumps is evaluated (line 85) before
\* the INSERT is executed
SaveError(obs) ==
    IF JsonSerializable(obs.context) THEN "sqlite3.Error" ELSE "TypeError"

\* save_observation raising, had the cache been appended to before the save
AfterSaveFailure_cached(seen) ==
    [seen EXCEPT !.observed_actions = CacheInsert(@, seen.observation),
                 !.outcome = "save_observation raised",
                 !.returned = Raised("watch_action", SaveError(seen.observation))]

\* save_observation raises: the exception leaves watch_action before the
\* append and the statistics
AfterSaveFailure(seen) ==
    [seen EXCEPT !.outcome = "save_observation raised",
                 !.returned = Raised("watch_action", SaveError(seen.observation))]

\* The engine's state as one record, and watch_action as a function of it.
\* alert_io_ok and save_io_ok say whether sqlite3 accepts the two writes.
\* outcome: "returned", or the statement that raised.
watch_action(s, user, action, ctx, alert_io_ok, save_io_ok) ==
    LET result == analyze_risk(ctx, s.now)
        created == Observation(s.now, user, action, ctx, result.risk_level, FALSE)
        alerting == should_alert(created, s.alert_thresholds)
        obs == IF alerting THEN [created EXCEPT !.alert_triggered = TRUE]
               ELSE created
        alert_written == alerting /\ alert_io_ok
        alert_raised == alerting /\ ~alert_io_ok
        save_raised == ~save_io_ok \/ ~JsonSerializable(ctx)
        seen == [s EXCEPT
                    !.call = [user |-> user, action |-> action,
                              context |-> ctx, at |-> s.now],
                    !.classification = result,
                    !.observation = obs,
                    !.alerts = IF alert_written
                               THEN Append(@, AlertRow(Len(@) + 1, obs,
                                        result.triggered_rules, s.now))
                               ELSE @]
    IN  IF alert_raised THEN AfterAlertFailure(seen)
        ELSE IF save_raised THEN AfterSaveFailure(seen)
        ELSE [seen EXCEPT
                !.observations = Append(@, ObservationRow(Len(@) + 1, obs)),
                !.observed_actions = CacheInsert(@, obs),
                !.stats = UpdateStats(@, obs),
                !.outcome = "returned",
                !.returned = Returned("watch_action", <<obs>>)]

\* the cleanup with a horizon of 14 days
_cleanup_old_observations_fortnight(cache, clock) ==
    LET cutoff_time == clock - 2 * RetentionHours
    IN  SelectSeq(cache, LAMBDA obs : obs.timestamp >= cutoff_time)

\* the cleanup that compares with > in place of >=
_cleanup_old_observations_strict(cache, clock) ==
    LET cutoff_time == clock - RetentionHours
    IN  SelectSeq(cache, LAMBDA obs : obs.timestamp > cutoff_time)

_cleanup_old_observations(cache, clock) ==
    LET cutoff_time == clock - RetentionHours
    IN  SelectSeq(cache, LAMBDA obs : obs.timestamp >= cutoff_time)

\* the query that compares with > in place of >=
get_recent_observations_strict(cache, clock, hours) ==
    LET cutoff_time == clock - hours
    IN  SelectSeq(cache, LAMBDA obs : obs.timestamp > cutoff_time)

get_recent_observations(cache, clock, hours) ==
    LET cutoff_time == clock - hours
    IN  SelectSeq(cache, LAMBDA obs : obs.timestamp >= cutoff_time)

get_user_activity(cache, user) ==
    SelectSeq(cache, LAMBDA obs : obs.user = user)

\* the order sqlite3 puts on two isoformat() texts of one layout
TextBefore(a, b) == a[2] < b[2] \/ (a[2] = b[2] /\ a[3] < b[3])

\* the rows in the order of the permutation p of their indices
Arranged(rows, p) == [i \in 1..Len(rows) |-> rows[p[i]]]

\* ORDER BY timestamp DESC: SQL leaves the order of rows of equal timestamp
\* open, so every arrangement with no later row after an earlier one is a
\* possible result
OrderByTimestampDesc(rows) ==
    {Arranged(rows, p) : p \in
        {q \in Permutations(1..Len(rows)) :
            \A i, j \in 1..Len(rows) :
                i < j => ~TextBefore(rows[q[i]].timestamp, rows[q[j]].timestamp)}}

\* LIMIT ?: sqlite3 takes a negative limit to mean no limit
Limit(rows, limit) ==
    IF limit < 0 \/ limit >= Len(rows) THEN rows ELSE SubSeq(rows, 1, limit)

\* the query in ascending order
get_observations_ascending(rows, limit) ==
    {Limit([i \in 1..Len(sorted) |-> sorted[Len(sorted) + 1 - i]], limit) :
        sorted \in OrderByTimestampDesc(rows)}

\* SELECT * FROM observations ORDER BY timestamp DESC LIMIT ?: the lists of
\* dicts the query may return, each dict holding the columns as stored
get_observations(rows, limit) ==
    {Limit(sorted, limit) : sorted \in OrderByTimestampDesc(rows)}

(***************************************************************************)
(* Inputs                                                                  *)
(***************************************************************************)
ContextKeys == {"amount", "country", "is_weekend", "risk_score",
                "attempt_count", "timestamp"}

\* the values a caller may pass under each key; Absent leaves the key out
KeyValues(key) ==
    CASE key = "amount" ->
            {Absent, Num(0), Num(9500), Num(10000), Num(10001), Str("n/a")}
      [] key = "country" ->
            {Absent, Str("India"), Str("india"), Str("Nigeria"), PyNone}
      [] key = "is_weekend" -> {Absent, Bool(TRUE), Bool(FALSE)}
      [] key = "risk_score" -> {Absent, Num(80), Num(92), Str("n/a")}
      [] key = "attempt_count" -> {Absent, Num(1), Num(4), PyNone}
      [] key = "timestamp" ->
            {Absent, DateTime(3), DateTime(12), Str("2024-01-01")}

\* a dict with the keys whose choice is not Absent
DictOf(choice) ==
    [k \in {key \in DOMAIN choice : choice[key] # Absent} |-> choice[k]]

Contexts ==
    {DictOf([amount |-> a, country |-> c, is_weekend |-> w, risk_score |-> r,
             attempt_count |-> n, timestamp |-> t]) :
        a \in KeyValues("amount"), c \in KeyValues("country"),
        w \in KeyValues("is_weekend"), r \in KeyValues("risk_score"),
        n \in KeyValues("attempt_count"), t \in KeyValues("timestamp")}

\* the manual observation of __main__ (country as the scenario spells it)
PriyaContext ==
    [amount |-> Num(9500), country |-> Str("india"), is_weekend |-> Bool(TRUE),
     risk_score |-> Num(92), attempt_count |-> Num(1)]

BobContext == [amount |-> Num(0)]

\* a context that triggers four rules at any hour
FraudContext ==
    [amount |-> Num(10001), country |-> Str("Nigeria"),
     is_weekend |-> Bool(TRUE), risk_score |-> Num(92),
     attempt_count |-> Num(1)]

\* a context as submit_observation builds it, with a datetime under 'timestamp'
SubmittedContext ==
    [amount |-> Num(10001), country |-> Str("India"),
     risk_score |-> Num(92), is_weekend |-> Bool(TRUE),
     attempt_count |-> Num(1), timestamp |-> DateTime(12)]

Requests ==
    {[user |-> "Priya", action |-> "flagged_transaction", context |-> PriyaContext],
     [user |-> "Bob", action |-> "login_attempt", context |-> BobContext],
     [user |-> "Bob", action |-> "flagged_transaction", context |-> FraudContext],
     [user |-> "Priya", action |-> "login_attempt", context |-> SubmittedContext]}

\* calls with an empty user and with an empty action
AnonymousRequests ==
    {[user |-> "", action |-> "login_attempt", context |-> BobContext],
     [user |-> "Bob", action |-> "", context |-> FraudContext]}

\* the calls made through the interface
ApiRequests ==
    {r \in Requests : r.context \in {PriyaContext, BobContext}}
        \cup AnonymousRequests

\* arguments of the queries
QueryHours == {HoursPerDay, RetentionHours}
QueryUsers == {"Priya", "Bob", ""}
Limits == (0 - 1)..MaxLimit

\* the concurrent callers of watch_action
Callers == 1..MaxCallers

\* whether sqlite3 accepts the alert write and the observation write of a
\* call: both, or one of them fails
WriteOutcomes == {<<TRUE, TRUE>>, <<FALSE, TRUE>>, <<TRUE, FALSE>>}

\* how far the clock moves between two steps
TickHours == {RetentionHours \div 2, RetentionHours}

(***************************************************************************)
(* States and actions                                                      *)
(***************************************************************************)
State ==
    [observed_actions |-> observed_actions, observations |-> observations,
     alerts |-> alerts, stats |-> stats, alert_thresholds |-> alert_thresholds,
     is_monitoring |-> is_monitoring, monitor_threads |-> monitor_threads,
     now |-> now, call |-> call, classification |-> classification,
     observation |-> observation, outcome |-> outcome, returned |-> returned]

\* ObserverAgent() on an empty database, with a threshold table
Constructed(thresholds) ==
    [observed_actions |-> <<>>, observations |-> <<>>, alerts |-> <<>>,
     stats |-> EmptyDict, alert_thresholds |-> thresholds,
     is_monitoring |-> FALSE, monitor_threads |-> 0, now |-> 0,
     call |-> NoCall, classification |-> NoResult,
     observation |-> NoObservation, outcome |-> "none",
     returned |-> NoReturn]

Becomes(s) ==
    /\ observed_actions' = s.observed_actions
    /\ observations' = s.observations
    /\ alerts' = s.alerts
    /\ stats' = s.stats
    /\ alert_thresholds' = s.alert_thresholds
    /\ is_monitoring' = s.is_monitoring
    /\ monitor_threads' = s.monitor_threads
    /\ now' = s.now
    /\ call' = s.call
    /\ classification' = s.classification
    /\ observation' = s.observation
    /\ outcome' = s.outcome
    /\ returned' = s.returned
    /\ UNCHANGED <<threads, sweeper, monitors>>

Starts(s) ==
    /\ observed_actions = s.observed_actions
    /\ observations = s.observations
    /\ alerts = s.alerts
    /\ stats = s.stats
    /\ alert_thresholds = s.alert_thresholds
    /\ is_monitoring = s.is_monitoring
    /\ monitor_threads = s.monitor_threads
    /\ now = s.now
    /\ call = s.call
    /\ classification = s.classification
    /\ observation = s.observation
    /\ outcome = s.outcome
    /\ returned = s.returned
    /\ threads = [t \in Callers |-> Idle]
    /\ sweeper = NoSweep
    /\ monitors = [m \in 1..s.monitor_threads |-> "test"]

Init == \E t \in ThresholdTables : Starts(Constructed(t))

\* one call of watch_action with one of `requests`, while fewer than `limit`
\* alert rows exist
WatchActionOf(limit, requests) ==
    /\ Len(alerts) < limit
    /\ \E r \in requests, io \in WriteOutcomes :
        LET after == watch_action(State, r.user, r.action, r.context,
                                  io[1], io[2])
        IN  Becomes(after)

WatchAction(limit) == WatchActionOf(limit, Requests)

\* start_monitoring, while fewer than `limit` threads have been started; the
\* new thread is about to test the flag of its while loop
StartMonitoringUpTo(limit) ==
    /\ monitor_threads < limit
    /\ is_monitoring' = TRUE
    /\ monitor_threads' = monitor_threads + 1
    /\ monitors' = Append(monitors, "test")
    /\ UNCHANGED <<observed_actions, observations, alerts, stats,
                   alert_thresholds, now, call, classification, observation,
                   outcome, returned, threads, sweeper>>

StartMonitoring == StartMonitoringUpTo(MaxMonitors)

\* the iteration, had the cleanup also deleted the rows of the observations
\* table older than the horizon
Sweep_purging ==
    /\ monitor_threads > 0
    /\ is_monitoring
    /\ observed_actions' = _cleanup_old_observations(observed_actions, now)
    /\ observations' = SelectSeq(observations, LAMBDA row :
            ~TextBefore(row.timestamp, IsoFormat(now - RetentionHours)))
    /\ outcome' = "swept"
    /\ returned' = Returned("_cleanup_old_observations", <<>>)
    /\ UNCHANGED <<alerts, stats, alert_thresholds,
                   is_monitoring, monitor_threads, now, call, classification,
                   observation, threads, sweeper,
                   monitors>>

\* one iteration of the loop of _background_monitor
Sweep ==
    /\ monitor_threads > 0
    /\ is_monitoring
    /\ observed_actions' = _cleanup_old_observations(observed_actions, now)
    /\ outcome' = "swept"
    /\ returned' = Returned("_cleanup_old_observations", <<>>)
    /\ UNCHANGED <<observations, alerts, stats, alert_thresholds,
                   is_monitoring, monitor_threads, now, call, classification,
                   observation, threads, sweeper,
                   monitors>>

\* time passes: the clock moves on by one of `hours`
Tick(hours) ==
    /\ \E d \in hours : now + d <= MaxClock /\ now' = now + d
    /\ UNCHANGED <<observed_actions, observations, alerts, stats,
                   alert_thresholds, is_monitoring, monitor_threads, call,
                   classification, observation, outcome, returned, threads,
                   sweeper,
                   monitors>>

\* one call of each query
GetRecentObservations ==
    /\ \E hours \in QueryHours :
        returned' = Answered("get_recent_observations", Num(hours),
                        get_recent_observations(observed_actions, now, hours))
    /\ UNCHANGED <<observed_actions, observations, alerts, stats,
                   alert_thresholds, is_monitoring, monitor_threads, now, call,
                   classification, observation, outcome, threads, sweeper,
                   monitors>>

GetUserActivity ==
    /\ \E user \in QueryUsers :
        returned' = Answered("get_user_activity", Str(user),
                        get_user_activity(observed_actions, user))
    /\ UNCHANGED <<observed_actions, observations, alerts, stats,
                   alert_thresholds, is_monitoring, monitor_threads, now, call,
                   classification, observation, outcome, threads, sweeper,
                   monitors>>

GetObservations ==
    /\ \E limit \in Limits :
        \E rows \in get_observations(observations, limit) :
            returned' = Answered("get_observations", Num(limit), rows)
    /\ UNCHANGED <<observed_actions, observations, alerts, stats,
                   alert_thresholds, is_monitoring, monitor_threads, now, call,
                   classification, observation, outcome, threads, sweeper,
                   monitors>>

Next ==
    \/ WatchAction(MaxAlerts)
    \/ StartMonitoring
    \/ Sweep
    \/ Tick(TickHours)

Spec == Init /\ [][Next]_vars

(***************************************************************************)
(* The classifier alone: analyze_risk applied, at any time and any number  *)
(* of times, to one context drawn from Contexts.                           *)
(***************************************************************************)
InitClassify ==
    \E ctx \in Contexts :
        Starts([Constructed(DefaultThresholds) EXCEPT
                    !.call = [user |-> "Bob", action |-> "login_attempt",
                              context |-> ctx, at |-> 0]])

AnalyzeRisk ==
    /\ classification' = analyze_risk(call.context, now)
    /\ call' = [call EXCEPT !.at = now]
    /\ outcome' = "classified"
    /\ UNCHANGED <<observed_actions, observations, alerts, stats,
                   alert_thresholds, is_monitoring, monitor_threads, now,
                   observation, returned, threads, sweeper,
                   monitors>>

NextClassify ==
    \/ AnalyzeRisk
    \/ Tick(TickHours)

SpecClassify == InitClassify /\ [][NextClassify]_vars

(***************************************************************************)
(* The interface: watch_action and the three queries, called one at a time *)
(* on an engine with the default thresholds.                               *)
(***************************************************************************)
InitApi == Starts(Constructed(DefaultThresholds))

NextApi ==
    \/ WatchActionOf(MaxAlerts, ApiRequests)
    \/ GetRecentObservations
    \/ GetUserActivity
    \/ GetObservations
    \/ Tick({RetentionHours})

SpecApi == InitApi /\ [][NextApi]_vars

(***************************************************************************)
(* The engine with a cache one short of its limit: the state left behind   *)
(* by start_monitoring(), one completed call of the manual observation and *)
(* then CacheLimit - 2 completed calls watch_action("Bob",                 *)
(* "login_attempt", {"amount": 0}), all made while the clock reads 0.      *)
(* From there the clock jumps past the retention horizon.                  *)
(***************************************************************************)
Monitored(s) == [s EXCEPT !.is_monitoring = TRUE, !.monitor_threads = 1]

\* what a call added at the end of a sequence
Added(before, after) == SubSeq(after, Len(before) + 1, Len(after))

\* `first` followed by m copies of `added`
Repeated(first, added, m) ==
    first \o [i \in 1..(m * Len(added)) |-> added[((i - 1) % Len(added)) + 1]]

\* rows numbered by AUTOINCREMENT
Numbered(rows) == [i \in DOMAIN rows |-> [rows[i] EXCEPT !.id = i]]

\* the state after one call for Priya and n - 1 equal calls for Bob
AfterCalls(n) ==
    LET s0 == Monitored(Constructed(DefaultThresholds))
        s1 == watch_action(s0, "Priya", "flagged_transaction", PriyaContext,
                           TRUE, TRUE)
        s2 == watch_action(s1, "Bob", "login_attempt", BobContext, TRUE, TRUE)
    IN  [s2 EXCEPT
            !.observed_actions =
                Repeated(s1.observed_actions,
                         Added(s1.observed_actions, @), n - 1),
            !.observations =
                Numbered(Repeated(s1.observations,
                                  Added(s1.observations, @), n - 1)),
            !.alerts =
                Numbered(Repeated(s1.alerts, Added(s1.alerts, @), n - 1)),
            !.stats =
                [k \in DOMAIN @ |->
                    Counter(s1.stats, k)
                        + (n - 1) * (s2.stats[k] - Counter(s1.stats, k))]]

InitFull == Starts(AfterCalls(CacheLimit - 1))

NextFull ==
    \/ WatchAction(CacheLimit + 1)
    \/ Sweep
    \/ Tick({MaxClock})

SpecFull == InitFull /\ [][NextFull]_vars

(***************************************************************************)
(* The two tables under every operation: the engine as constructed and the *)
(* engine with a cache one short of its limit, with calls, monitoring,     *)
(* sweeps and the three queries. Calls go on while the alerts table has    *)
(* fewer than MaxAlerts rows or, past the prefilled start, up to one row   *)
(* over the cache limit; the queries are asked of an engine that has       *)
(* recorded at most MaxAlerts calls.                                       *)
(***************************************************************************)
StoreRequests == {r \in Requests : r.context \in {PriyaContext, BobContext}}

InitStore == InitApi \/ InitFull

FewCalls == Len(alerts) <= MaxAlerts /\ Len(observations) <= MaxAlerts

NextStore ==
    \/ WatchActionOf(IF FewCalls THEN MaxAlerts ELSE CacheLimit + 1,
                     StoreRequests)
    \/ StartMonitoring
    \/ Sweep
    \/ FewCalls /\ GetRecentObservations
    \/ FewCalls /\ GetUserActivity
    \/ FewCalls /\ GetObservations
    \/ Tick({MaxClock})

SpecStore == InitStore /\ [][NextStore]_vars

(***************************************************************************)
(* Threads. MaxCallers threads call watch_action once each while the       *)
(* thread of _background_monitor runs _cleanup_old_observations, on an     *)
(* engine with a cache one short of its limit. The code takes no lock, so  *)
(* the threads interleave between statements. A caller is taken through    *)
(* lines 212-230 in one step (classification, the Observation, the two     *)
(* writes), then through the append (233), the length test (234), the      *)
(* pop (235) and the statistics (238-247) one step each. The cleanup       *)
(* computes its cutoff, walks the list that observed_actions names while   *)
(* building a new one, and then rebinds observed_actions to the new list.  *)
(* The list iterator goes by index over the live list. Of the points at    *)
(* which the walk can be interrupted the model keeps three: after the      *)
(* first entry, after the entry that is last at that moment, and between   *)
(* the end of the walk and the rebinding.                                  *)
(***************************************************************************)
\* caller t reports attempt number t: the calls differ from one another and
\* from the calls that filled the cache
ThreadRequest(t) ==
    [user |-> "Bob", action |-> "login_attempt",
     context |-> [attempt_count |-> Num(t)]]

Finished == {"done", "raised"}

\* lines 212-230
Enter(t) ==
    /\ threads[t].pc = "idle"
    /\ \E io \in WriteOutcomes :
        LET r == ThreadRequest(t)
            after == watch_action(State, r.user, r.action, r.context,
                                  io[1], io[2])
            saved == after.outcome = "returned"
        IN  /\ alerts' = after.alerts
            /\ observations' = after.observations
            /\ call' = after.call
            /\ classification' = after.classification
            /\ observation' = after.observation
            /\ outcome' = IF saved THEN "saved" ELSE after.outcome
            /\ returned' = IF saved THEN returned ELSE after.returned
            /\ threads' = [threads EXCEPT ![t] =
                    [pc |-> IF saved THEN "append" ELSE "raised",
                     result |-> after.classification,
                     obs |-> after.observation,
                     alerting |-> after.observation.alert_triggered,
                     read |-> 0]]
    /\ UNCHANGED <<observed_actions, stats, alert_thresholds, is_monitoring,
                   monitor_threads, now, sweeper,
                   monitors>>

\* line 233
AppendToCache(t) ==
    /\ threads[t].pc = "append"
    /\ observed_actions' = Append(observed_actions, threads[t].obs)
    /\ threads' = [threads EXCEPT ![t].pc = "test"]
    /\ UNCHANGED <<observations, alerts, stats, alert_thresholds,
                   is_monitoring, monitor_threads, now, call, classification,
                   observation, outcome, returned, sweeper,
                   monitors>>

\* line 234
TestLength(t) ==
    /\ threads[t].pc = "test"
    /\ threads' = [threads EXCEPT ![t].pc =
            IF Len(observed_actions) > CacheLimit THEN "pop" ELSE "count"]
    /\ UNCHANGED <<observed_actions, observations, alerts, stats,
                   alert_thresholds, is_monitoring, monitor_threads, now, call,
                   classification, observation, outcome, returned, sweeper,
                   monitors>>

\* line 235; pop(0) of an empty list raises IndexError
Pop(t) ==
    /\ threads[t].pc = "pop"
    /\ IF observed_actions = <<>>
       THEN /\ threads' = [threads EXCEPT ![t].pc = "raised"]
            /\ outcome' = "pop raised"
            /\ returned' = Raised("watch_action", "IndexError")
            /\ UNCHANGED observed_actions
       ELSE /\ threads' = [threads EXCEPT ![t].pc = "count"]
            /\ observed_actions' = Tail(observed_actions)
            /\ UNCHANGED <<outcome, returned>>
    /\ UNCHANGED <<observations, alerts, stats, alert_thresholds,
                   is_monitoring, monitor_threads, now, call, classification,
                   observation, sweeper,
                   monitors>>

\* lines 238-247
CountAndReturn(t) ==
    /\ threads[t].pc = "count"
    /\ stats' = UpdateStats(stats, threads[t].obs)
    /\ outcome' = "returned"
    /\ returned' = Returned("watch_action", <<threads[t].obs>>)
    /\ threads' = [threads EXCEPT ![t].pc = "done"]
    /\ UNCHANGED <<observed_actions, observations, alerts, alert_thresholds,
                   is_monitoring, monitor_threads, now, call, classification,
                   observation, sweeper,
                   monitors>>

\* line 274, and the iterator taken at line 276
SweepBegin ==
    /\ sweeper.pc = "idle"
    /\ monitor_threads > 0
    /\ is_monitoring
    /\ sweeper' = [pc |-> "walk", cutoff_time |-> now - RetentionHours,
                   position |-> 0, kept |-> <<>>]
    /\ UNCHANGED <<observed_actions, observations, alerts, stats,
                   alert_thresholds, is_monitoring, monitor_threads, now, call,
                   classification, observation, outcome, returned, threads,
                   monitors>>

\* where the walk, standing at `position` of a list of `length`, may next be
\* interrupted
Stops(position, length) ==
    IF position = 0 THEN {1, length} ELSE {length}

\* lines 275-278: the entries from the iterator's position up to a stop
SweepWalk ==
    /\ sweeper.pc = "walk"
    /\ sweeper.position < Len(observed_actions)
    /\ \E stop \in Stops(sweeper.position, Len(observed_actions)) :
        sweeper' = [sweeper EXCEPT
            !.position = stop,
            !.kept = @ \o SelectSeq(
                        SubSeq(observed_actions, sweeper.position + 1, stop),
                        LAMBDA obs : obs.timestamp >= sweeper.cutoff_time)]
    /\ UNCHANGED <<observed_actions, observations, alerts, stats,
                   alert_thresholds, is_monitoring, monitor_threads, now, call,
                   classification, observation, outcome, returned, threads,
                   monitors>>

\* the iterator finds no entry at its position: the walk is over
SweepWalkEnds ==
    /\ sweeper.pc = "walk"
    /\ sweeper.position >= Len(observed_actions)
    /\ sweeper' = [sweeper EXCEPT !.pc = "rebind"]
    /\ UNCHANGED <<observed_actions, observations, alerts, stats,
                   alert_thresholds, is_monitoring, monitor_threads, now, call,
                   classification, observation, outcome, returned, threads,
                   monitors>>

\* self.observed_actions = the new list
SweepRebinds ==
    /\ sweeper.pc = "rebind"
    /\ observed_actions' = sweeper.kept
    /\ sweeper' = NoSweep
    /\ outcome' = "swept"
    /\ returned' = Returned("_cleanup_old_observations", <<>>)
    /\ UNCHANGED <<observations, alerts, stats, alert_thresholds,
                   is_monitoring, monitor_threads, now, call, classification,
                   observation, threads,
                   monitors>>

InitThreads == InitFull

NextThreads ==
    \/ \E t \in Callers :
          Enter(t) \/ AppendToCache(t) \/ TestLength(t) \/ Pop(t)
            \/ CountAndReturn(t)
    \/ SweepBegin
    \/ SweepWalk
    \/ SweepWalkEnds
    \/ SweepRebinds

SpecThreads == InitThreads /\ [][NextThreads]_vars

(***************************************************************************)
(* watch_action statement by statement. MaxCallers threads call            *)
(* watch_action once each on a freshly constructed engine while the clock  *)
(* moves; each caller takes lines 212, 214-221, 224-226, 227, 230, 233,    *)
(* 234 and 238-247 one step at a time, so the other callers and the clock  *)
(* can come in between any two of them. The cache stays far below its      *)
(* limit, so the pop of line 235 is never reached here.                    *)
(***************************************************************************)
\* the order with the observation saved before the alert is created
Following_saving_first(pc, alerting) ==
    CASE pc = "classify" -> "construct"
      [] pc = "construct" -> "decide"
      [] pc = "decide" -> "save"
      [] pc = "save" -> IF alerting THEN "create_alert" ELSE "append"
      [] pc = "create_alert" -> "append"

\* the statement of watch_action that follows the one at pc
Following(pc, alerting) ==
    CASE pc = "classify" -> "construct"
      [] pc = "construct" -> "decide"
      [] pc = "decide" -> IF alerting THEN "create_alert" ELSE "save"
      [] pc = "create_alert" -> "save"
      [] pc = "save" -> "append"

\* line 212
Classify(t) ==
    /\ threads[t].pc = "idle"
    /\ LET r == ThreadRequest(t)
           result == analyze_risk(r.context, now)
       IN  /\ threads' = [threads EXCEPT
                    ![t].pc = Following("classify", FALSE),
                    ![t].result = result]
           /\ call' = [user |-> r.user, action |-> r.action,
                       context |-> r.context, at |-> now]
           /\ classification' = result
    /\ UNCHANGED <<observed_actions, observations, alerts, stats,
                   alert_thresholds, is_monitoring, monitor_threads, now,
                   observation, outcome, returned, sweeper,
                   monitors>>

\* lines 214-221
Construct(t) ==
    /\ threads[t].pc = "construct"
    /\ LET r == ThreadRequest(t)
           obs == Observation(now, r.user, r.action, r.context,
                              threads[t].result.risk_level, FALSE)
       IN  /\ threads' = [threads EXCEPT
                    ![t].pc = Following("construct", FALSE),
                    ![t].obs = obs]
           /\ observation' = obs
    /\ UNCHANGED <<observed_actions, observations, alerts, stats,
                   alert_thresholds, is_monitoring, monitor_threads, now, call,
                   classification, outcome, returned, sweeper,
                   monitors>>

\* lines 224-226: the decision, and the assignment to alert_triggered of the
\* observation already constructed
Decide(t) ==
    /\ threads[t].pc = "decide"
    /\ LET alerting == should_alert(threads[t].obs, alert_thresholds)
           obs == IF alerting
                  THEN [threads[t].obs EXCEPT !.alert_triggered = TRUE]
                  ELSE threads[t].obs
       IN  /\ threads' = [threads EXCEPT
                    ![t].pc = Following("decide", alerting),
                    ![t].alerting = alerting,
                    ![t].obs = obs]
           /\ observation' = obs
    /\ UNCHANGED <<observed_actions, observations, alerts, stats,
                   alert_thresholds, is_monitoring, monitor_threads, now, call,
                   classification, outcome, returned, sweeper,
                   monitors>>

\* line 227
CreateAlert(t) ==
    /\ threads[t].pc = "create_alert"
    /\ \E io_ok \in BOOLEAN :
        IF io_ok
        THEN /\ alerts' = Append(alerts, AlertRow(Len(alerts) + 1,
                                threads[t].obs,
                                threads[t].result.triggered_rules, now))
             /\ threads' = [threads EXCEPT
                    ![t].pc = Following("create_alert", TRUE)]
             /\ UNCHANGED <<outcome, returned>>
        ELSE /\ threads' = [threads EXCEPT ![t].pc = "raised"]
             /\ outcome' = "create_alert raised"
             /\ returned' = Raised("watch_action", "sqlite3.Error")
             /\ UNCHANGED alerts
    /\ UNCHANGED <<observed_actions, observations, stats, alert_thresholds,
                   is_monitoring, monitor_threads, now, call, classification,
                   observation, sweeper,
                   monitors>>

\* line 230, had save_observation written nothing
SaveObservation_skipped(t) ==
    /\ threads[t].pc = "save"
    /\ threads' = [threads EXCEPT
            ![t].pc = Following("save", threads[t].alerting)]
    /\ UNCHANGED <<observed_actions, observations, alerts, stats,
                   alert_thresholds, is_monitoring, monitor_threads, now, call,
                   classification, observation, outcome, returned, sweeper,
                   monitors>>

\* line 230
SaveObservation(t) ==
    /\ threads[t].pc = "save"
    /\ \E io_ok \in BOOLEAN :
        IF io_ok /\ JsonSerializable(threads[t].obs.context)
        THEN /\ observations' = Append(observations,
                    ObservationRow(Len(observations) + 1, threads[t].obs))
             /\ threads' = [threads EXCEPT
                    ![t].pc = Following("save", threads[t].alerting)]
             /\ UNCHANGED <<outcome, returned>>
        ELSE /\ threads' = [threads EXCEPT ![t].pc = "raised"]
             /\ outcome' = "save_observation raised"
             /\ returned' = Raised("watch_action", SaveError(threads[t].obs))
             /\ UNCHANGED observations
    /\ UNCHANGED <<observed_actions, alerts, stats, alert_thresholds,
                   is_monitoring, monitor_threads, now, call, classification,
                   observation, sweeper,
                   monitors>>

InitSteps == InitApi

NextSteps ==
    \/ \E t \in Callers :
          Classify(t) \/ Construct(t) \/ Decide(t) \/ CreateAlert(t)
            \/ SaveObservation(t) \/ AppendToCache(t) \/ TestLength(t)
            \/ CountAndReturn(t)
    \/ Tick({RetentionHours})

SpecSteps == InitSteps /\ [][NextSteps]_vars

(***************************************************************************)
(* The statistics under concurrent callers. MaxCallers threads call        *)
(* watch_action once each on a freshly constructed engine; each is taken   *)
(* through lines 212-230 in one step, through the append and the length    *)
(* test, and then through lines 237-241 with every `stats[key] += 1` as    *)
(* the two operations it is: the read of stats[key], which on a            *)
(* defaultdict inserts a missing key with 0, and the store of the value    *)
(* read plus one.                                                          *)
(***************************************************************************)
\* the counter the statement at pc works on
CounterAt(pc, obs) ==
    CASE pc \in {"count", "add_total"} -> "total_observations"
      [] pc \in {"count_risk", "add_risk"} -> RiskCounter(obs.risk_level)
      [] pc \in {"count_alerts", "add_alerts"} -> "total_alerts"

\* the read of stats[key]
ReadCounter(t) ==
    /\ threads[t].pc \in {"count", "count_risk", "count_alerts"}
    /\ LET key == CounterAt(threads[t].pc, threads[t].obs)
       IN  /\ stats' = IF key \in DOMAIN stats THEN stats
                        ELSE stats @@ (key :> 0)
           /\ threads' = [threads EXCEPT
                    ![t].read = Counter(stats, key),
                    ![t].pc = CASE threads[t].pc = "count" -> "add_total"
                                [] threads[t].pc = "count_risk" -> "add_risk"
                                [] OTHER -> "add_alerts"]
    /\ UNCHANGED <<observed_actions, observations, alerts, alert_thresholds,
                   is_monitoring, monitor_threads, now, call, classification,
                   observation, outcome, returned, sweeper,
                   monitors>>

\* the store of stats[key], and the return after the last one
WriteCounter(t) ==
    /\ threads[t].pc \in {"add_total", "add_risk", "add_alerts"}
    /\ LET key == CounterAt(threads[t].pc, threads[t].obs)
           next == CASE threads[t].pc = "add_total" -> "count_risk"
                     [] threads[t].pc = "add_risk" ->
                            IF threads[t].obs.alert_triggered
                            THEN "count_alerts" ELSE "done"
                     [] OTHER -> "done"
       IN  /\ stats' = [stats EXCEPT ![key] = threads[t].read + 1]
           /\ threads' = [threads EXCEPT ![t].pc = next]
           /\ outcome' = IF next = "done" THEN "returned" ELSE outcome
           /\ returned' = IF next = "done"
                          THEN Returned("watch_action", <<threads[t].obs>>)
                          ELSE returned
    /\ UNCHANGED <<observed_actions, observations, alerts, alert_thresholds,
                   is_monitoring, monitor_threads, now, call, classification,
                   observation, sweeper,
                   monitors>>

InitCounters == InitApi

NextCounters ==
    \E t \in Callers :
        Enter(t) \/ AppendToCache(t) \/ TestLength(t) \/ ReadCounter(t)
          \/ WriteCounter(t)

SpecCounters == InitCounters /\ [][NextCounters]_vars

(***************************************************************************)
(* The monitor threads. start_monitoring may be called MaxStarts times;    *)
(* every call starts a thread that runs the loop of _background_monitor:   *)
(* the test of is_monitoring (line 267), then the sleep and the cleanup    *)
(* (lines 268-270). The class has no method that clears is_monitoring:     *)
(* shutdown is requested by the owner assigning False to the attribute.    *)
(* A thread that was started gets to run: its steps are weakly fair. The   *)
(* calls of the engine's methods are the caller's to make or not.          *)
(***************************************************************************)
\* the owner clears the flag
RequestShutdown ==
    /\ is_monitoring
    /\ is_monitoring' = FALSE
    /\ UNCHANGED <<observed_actions, observations, alerts, stats,
                   alert_thresholds, monitor_threads, now, call,
                   classification, observation, outcome, returned, threads,
                   sweeper, monitors>>

\* line 267: while self.is_monitoring
LoopTest(m) ==
    /\ m \in DOMAIN monitors
    /\ monitors[m] = "test"
    /\ monitors' = [monitors EXCEPT ![m] =
            IF is_monitoring THEN "sleep" ELSE "ended"]
    /\ UNCHANGED <<observed_actions, observations, alerts, stats,
                   alert_thresholds, is_monitoring, monitor_threads, now, call,
                   classification, observation, outcome, returned, threads,
                   sweeper>>

\* lines 268-270, had the loop slept and not cleaned up
SleepAndCleanup_sleeping(m) ==
    /\ m \in DOMAIN monitors
    /\ monitors[m] = "sleep"
    /\ monitors' = [monitors EXCEPT ![m] = "test"]
    /\ UNCHANGED <<observed_actions, observations, alerts, stats,
                   alert_thresholds, is_monitoring, monitor_threads, now, call,
                   classification, observation, outcome, returned, threads,
                   sweeper>>

\* lines 268-270: time.sleep(30) returns and _cleanup_old_observations runs
SleepAndCleanup(m) ==
    /\ m \in DOMAIN monitors
    /\ monitors[m] = "sleep"
    /\ monitors' = [monitors EXCEPT ![m] = "test"]
    /\ observed_actions' = _cleanup_old_observations(observed_actions, now)
    /\ outcome' = "swept"
    /\ returned' = Returned("_cleanup_old_observations", <<>>)
    /\ UNCHANGED <<observations, alerts, stats, alert_thresholds,
                   is_monitoring, monitor_threads, now, call, classification,
                   observation, threads, sweeper>>

MonitorThreads == 1..MaxStarts

InitMonitor == InitApi

NextMonitor ==
    \/ WatchActionOf(MaxAlerts, StoreRequests)
    \/ Tick({MaxClock})
    \/ StartMonitoringUpTo(MaxStarts)
    \/ RequestShutdown
    \/ \E m \in MonitorThreads : LoopTest(m) \/ SleepAndCleanup(m)

SpecMonitor == InitMonitor /\ [][NextMonitor]_vars

SpecMonitorFair ==
    /\ SpecMonitor
    /\ \A m \in MonitorThreads :
          WF_vars(LoopTest(m)) /\ WF_vars(SleepAndCleanup(m))

(***************************************************************************)
(* Properties                                                              *)
(***************************************************************************)
Elements(seq) == {seq[i] : i \in DOMAIN seq}

\* the rules whose predicate holds in the latest call
Triggering ==
    {r \in RuleNames : rule_func(r, call.context, call.at) = "true"}

\* the rules whose predicate raises in the latest call
Raising ==
    {r \in RuleNames : rule_func(r, call.context, call.at) = "raise"}

Classified == classification # NoResult

\* C1: analyze_risk returns the level fixed by the number k of triggered
\* rules: LOW for 0, MEDIUM for 1, HIGH for 2, CRITICAL for 3 or more, and
\* never any other level.
RiskLevelByCount ==
    Classified =>
        LET k == Cardinality(Triggering)
            level == classification.risk_level
        IN  /\ level \in RiskLevels
            /\ Len(classification.triggered_rules) = k
            /\ k = 0 => level = "LOW"
            /\ k = 1 => level = "MEDIUM"
            /\ k = 2 => level = "HIGH"
            /\ k >= 3 => level = "CRITICAL"

\* a context that triggers exactly three rules has been classified
ThreeRulesClassified ==
    Classified /\ Len(classification.triggered_rules) = 3

\* C2: a rule that raises counts as not triggered, every other rule is still
\* evaluated against the same context (it is reported exactly when its
\* predicate holds), and analyze_risk returns a result with a risk level.
RaisingRuleIsolated ==
    Classified =>
        /\ classification.risk_level \in RiskLevels
        /\ Elements(classification.triggered_rules) = Triggering
        /\ Elements(classification.triggered_rules) \cap Raising = {}

\* the first rule of the catalog raised and the last one was still reported
RaisedThenTriggered ==
    /\ Classified
    /\ "high_amount" \in Raising
    /\ "suspicious_country" \in Raising
    /\ "unusual_time" \in Elements(classification.triggered_rules)

\* C3: a watch_action call whose context triggers three or more rules builds
\* an observation with risk_level CRITICAL and alert_triggered true, under
\* every alert_thresholds table.
CriticalAlwaysAlerts ==
    (observation # NoObservation /\ Cardinality(Triggering) >= 3) =>
        /\ observation.risk_level = "CRITICAL"
        /\ observation.alert_triggered

\* a call with three or more triggered rules returned while the thresholds
\* of every level, CRITICAL included, were raised
CriticalReturnedUnderRaisedThresholds ==
    /\ outcome = "returned"
    /\ Cardinality(Triggering) >= 3
    /\ alert_thresholds = RaisedThresholds
    /\ observed_actions # <<>>
    /\ observed_actions[Len(observed_actions)] = observation

\* the alert rows written for the latest call
AlertsOfCall ==
    {i \in DOMAIN alerts :
        /\ alerts[i].user = call.user
        /\ alerts[i].alert_type = call.action
        /\ alerts[i].timestamp = IsoFormat(call.at)}

\* C4: under the default alert policy a watch_action call whose context
\* triggers no rule builds an observation with risk_level LOW and
\* alert_triggered false, and persists no alert.
NoRuleNoAlert ==
    (/\ outcome = "returned"
     /\ Triggering = {}
     /\ alert_thresholds = DefaultThresholds) =>
        /\ observation.risk_level = "LOW"
        /\ ~observation.alert_triggered
        /\ AlertsOfCall = {}

ClassificationRepeats ==
    [][(Classified /\ Classified') => classification' = classification]_vars

\* C7: the manual observation for Priya triggers exactly weekend_activity and
\* high_risk_score, is HIGH with alert_triggered true, and persists exactly
\* one alert, of severity HIGH.
ManualObservationIsHigh ==
    [][(/\ observations' # observations
        /\ call'.user = "Priya"
        /\ call'.action = "flagged_transaction"
        /\ call'.context = PriyaContext) =>
            /\ classification'.triggered_rules
                    = <<"weekend_activity", "high_risk_score">>
            /\ observation'.risk_level = "HIGH"
            /\ observation'.alert_triggered
            /\ Len(alerts') = Len(alerts) + 1
            /\ alerts'[Len(alerts')].severity = "HIGH"]_vars

\* C8: after any sequence of completed watch_action calls and sweeps the
\* cache holds at most 1000 observations.
CacheBounded == Len(observed_actions) <= CacheLimit

\* a call completed on a full cache
ReturnedOnFullCache ==
    /\ outcome = "returned"
    /\ Len(observed_actions) = CacheLimit
    /\ Counter(stats, "total_observations") = CacheLimit + 1

\* C9: a watch_action call that appends to a cache of 1000 observations
\* removes exactly the earliest one, and leaves the other entries in their
\* order with the new observation last.
EvictionIsFifo ==
    [][(Len(observed_actions) = CacheLimit /\ observations' # observations) =>
            /\ Len(observed_actions') = CacheLimit
            /\ observed_actions' = Append(Tail(observed_actions), observation')
      ]_vars

\* the first observation ever cached, Priya's, has been evicted and the
\* latest one is last
EarliestEvicted ==
    /\ outcome = "returned"
    /\ Len(observations) = CacheLimit + 1
    /\ observations[1].user = "Priya"
    /\ Len(observed_actions) = CacheLimit
    /\ observed_actions[1].user = "Bob"
    /\ observed_actions[CacheLimit] = observation

\* C10: right after a run of _cleanup_old_observations the cache holds no
\* observation older than 7 days before the time of the run.
SweepLeavesNoStale ==
    [][Sweep =>
        \A i \in DOMAIN observed_actions' :
            observed_actions'[i].timestamp >= now' - RetentionHours]_vars

\* a sweep dropped an observation and kept a later one
StaleSwept ==
    /\ outcome = "swept"
    /\ observed_actions # <<>>
    /\ Len(observed_actions) < Counter(stats, "total_observations")

\* a step that is one whole call of watch_action
Called == call' # NoCall /\ returned'.method = "watch_action" /\ sweeper' = sweeper
          /\ threads' = threads /\ now' = now /\ monitor_threads' = monitor_threads
          /\ (returned' # returned \/ call' # call \/ alerts' # alerts
              \/ observations' # observations)

\* C14: a call of watch_action in which save_observation fails raises, and
\* leaves the observations table, the cache and the statistics as they were;
\* of the alerts table it changes nothing but, at most, the one row its own
\* create_alert appended.
SaveFailureRecordsNothing ==
    [][(Called /\ outcome' = "save_observation raised") =>
        /\ returned'.raised
        /\ observations' = observations
        /\ observed_actions' = observed_actions
        /\ stats' = stats
        /\ \/ alerts' = alerts
           \/ /\ Len(alerts') = Len(alerts) + 1
              /\ SubSeq(alerts', 1, Len(alerts)) = alerts]_vars

\* a failed save has left its alert row behind, after an earlier call was
\* recorded
SaveFailedAfterAlert ==
    /\ outcome = "save_observation raised"
    /\ observed_actions # <<>>
    /\ Len(alerts) > Len(observations)

\* C15: a call of watch_action in which create_alert fails raises, and writes
\* no row, caches nothing and counts nothing; and whenever a call whose alert
\* decision is positive records an observation, in the table or in the cache,
\* that observation carries alert_triggered true.
AlertFailureRecordsNothing ==
    [][Called =>
        /\ outcome' = "create_alert raised" =>
              /\ returned'.raised
              /\ observations' = observations
              /\ observed_actions' = observed_actions
              /\ alerts' = alerts
              /\ stats' = stats
        /\ should_alert(observation', alert_thresholds) =>
              /\ \A i \in (Len(observations) + 1)..Len(observations') :
                    observations'[i].alert_triggered = SqlBool(TRUE)
              /\ observed_actions' # observed_actions =>
                    observed_actions'[Len(observed_actions')].alert_triggered]_vars

\* create_alert failed in a call that follows a recorded one
AlertFailedAfterRecorded ==
    /\ outcome = "create_alert raised"
    /\ observed_actions # <<>>
    /\ Len(observations) = Len(alerts)

\* C16: the alert row a call of watch_action writes has the user of the
\* call's observation, its action as alert_type, its risk_level as severity,
\* and a message listing the names of the rules that triggered, each once.
AlertMirrorsObservation ==
    [][(Called /\ alerts' # alerts) =>
        /\ Len(alerts') = Len(alerts) + 1
        /\ LET alert == alerts'[Len(alerts')]
           IN  /\ alert.user = observation'.user
               /\ alert.alert_type = observation'.action
               /\ alert.severity = observation'.risk_level
               /\ alert.message[2] = observation'.user
               /\ Elements(alert.message[4]) =
                     {r \in RuleNames :
                        rule_func(r, call'.context, call'.at) = "true"}
               /\ Len(alert.message[4]) = Cardinality(Elements(alert.message[4]))]_vars

\* an alert for a login attempt, of a severity other than HIGH, is on record
LoginAlertWritten ==
    /\ outcome = "returned"
    /\ alerts # <<>>
    /\ alerts[Len(alerts)].alert_type = "login_attempt"
    /\ alerts[Len(alerts)].severity = "LOW"

\* the entries of seq at the indices in `kept`, in the order of seq
Selected(seq, kept) ==
    [k \in 1..Cardinality(kept) |->
        seq[CHOOSE i \in kept : Cardinality({j \in kept : j <= i}) = k]]

\* C17: get_recent_observations(hours) returns the cache entries whose
\* timestamp is at or after now - hours, and get_user_activity(user) those
\* whose user is `user`, each time all of them, once each and in the order
\* of the cache; neither call changes the cache, the two tables or the
\* statistics.
CacheQueriesSelect ==
    [][(returned' # returned
         /\ returned'.method \in {"get_recent_observations", "get_user_activity"}) =>
        /\ ~returned'.raised
        /\ UNCHANGED <<observed_actions, observations, alerts, stats>>
        /\ returned'.method = "get_recent_observations" =>
              returned'.value = Selected(observed_actions,
                  {i \in DOMAIN observed_actions :
                     observed_actions[i].timestamp
                        >= now - ValueOf(returned'.argument)})
        /\ returned'.method = "get_user_activity" =>
              returned'.value = Selected(observed_actions,
                  {i \in DOMAIN observed_actions :
                     observed_actions[i].user = ValueOf(returned'.argument)})]_vars

\* a query for the last 7 days returned an entry exactly 7 days old
RecentAtTheCutoff ==
    /\ returned.method = "get_recent_observations"
    /\ returned.argument = Num(RetentionHours)
    /\ returned.value # <<>>
    /\ returned.value[1].timestamp = now - RetentionHours
    /\ Len(observed_actions) = Len(returned.value)
    /\ Len(observations) = Len(observed_actions)

\* a step that is one call of get_observations
Queried == returned' # returned /\ returned'.method = "get_observations"

\* `value` holds `count` of the stored rows, no row twice, latest first, and
\* no row left out is later than a row in it
MostRecentFirst(value, count, rows) ==
    /\ Len(value) = count
    /\ \A k \in DOMAIN value : \E i \in DOMAIN rows : value[k] = rows[i]
    /\ \A k, m \in DOMAIN value : k < m => value[k].id # value[m].id
    /\ \A k, m \in DOMAIN value :
          k < m => ~TextBefore(value[k].timestamp, value[m].timestamp)
    /\ \A i \in DOMAIN rows :
          (\A k \in DOMAIN value : value[k].id # rows[i].id) =>
             \A k \in DOMAIN value :
                ~TextBefore(value[k].timestamp, rows[i].timestamp)

\* the smaller of two numbers
Min(a, b) == IF a <= b THEN a ELSE b

\* C18: get_observations(limit) returns at most `limit` rows of the
\* observations table: the `limit` latest by timestamp (all rows when there
\* are fewer), latest first; the call changes neither table.
QueryReturnsLatest ==
    [][Queried =>
        LET limit == ValueOf(returned'.argument)
        IN  /\ Len(returned'.value) <= limit
            /\ MostRecentFirst(returned'.value,
                               Min(limit, Len(observations)), observations)
            /\ UNCHANGED <<observations, alerts>>]_vars

\* C18, for a limit that is not negative: get_observations(limit) returns at
\* most `limit` rows of the observations table: the `limit` latest by
\* timestamp (all rows when there are fewer), latest first; the call changes
\* neither table.
QueryReturnsLatestOfCount ==
    [][(Queried /\ ValueOf(returned'.argument) >= 0) =>
        LET limit == ValueOf(returned'.argument)
        IN  /\ Len(returned'.value) <= limit
            /\ MostRecentFirst(returned'.value,
                               Min(limit, Len(observations)), observations)
            /\ UNCHANGED <<observations, alerts>>]_vars

\* of two rows written 7 days apart, a query with limit 1 returned the later
LaterRowReturned ==
    /\ returned.method = "get_observations"
    /\ returned.argument = Num(1)
    /\ Len(observations) = 2
    /\ TextBefore(observations[1].timestamp, observations[2].timestamp)
    /\ returned.value = <<observations[2]>>

\* the statements of watch_action that raised for a reason other than its
\* arguments: sqlite3 refusing a write, json.dumps refusing the context
WriteFailures == {"create_alert raised", "save_observation raised"}

\* C13: a call of watch_action with an empty user or an empty action, in
\* which no write fails, fails before anything is written: it raises, adds
\* no observation row and no alert row, and leaves the cache and the
\* statistics as they were.
EmptyNamesRejected ==
    [][(Called /\ (call'.user = "" \/ call'.action = "")
               /\ outcome' \notin WriteFailures) =>
        /\ returned'.raised
        /\ UNCHANGED <<observations, alerts, observed_actions, stats>>]_vars

\* C19: after a call of watch_action in which sqlite3 refused no write, the
\* observations table holds a row for the call, get_observations returns it,
\* and the context of that row, decoded, has the keys and the values of the
\* context the call was given.
ContextRoundTrips ==
    (returned.method = "watch_action" /\ returned.error # "sqlite3.Error") =>
        /\ observations # <<>>
        /\ \A rows \in get_observations(observations, Len(observations)) :
              \E k \in DOMAIN rows :
                 /\ rows[k].id = Len(observations)
                 /\ json_loads(rows[k].context) = call.context

\* C20: the two tables only grow. Every step leaves the rows of the
\* observations table and of the alerts table as they were, in place; a
\* call of watch_action that returns adds one observation row, and one
\* alert row when it alerts; a step that is not a call of watch_action (an
\* eviction is part of such a call) adds no row.
StoreAppendOnly ==
    [][/\ Len(observations') >= Len(observations)
       /\ SubSeq(observations', 1, Len(observations)) = observations
       /\ Len(alerts') >= Len(alerts)
       /\ SubSeq(alerts', 1, Len(alerts)) = alerts
       /\ (Called /\ outcome' = "returned") =>
             /\ Len(observations') = Len(observations) + 1
             /\ Len(alerts') = Len(alerts)
                    + (IF observation'.alert_triggered THEN 1 ELSE 0)
       /\ ~Called => UNCHANGED <<observations, alerts>>]_vars

\* the cache is at its limit, has evicted an entry and has then been swept
\* empty, and both tables hold a row for every call
EvictedAndSweptButStored ==
    /\ observed_actions = <<>>
    /\ outcome = "swept"
    /\ Len(observations) = CacheLimit + 1
    /\ Len(alerts) = CacheLimit + 1

\* every caller has left watch_action and no cleanup is under way
AtRest ==
    /\ \A t \in Callers : threads[t].pc \in Finished
    /\ sweeper.pc = "idle"

\* C11: once the callers and the cleanup have finished, the observation of
\* every call that returned and is not older than the horizon is in the
\* cache. (No observation these calls appended can have been evicted by
\* count: it would have to stand first in a cache of more than CacheLimit
\* entries, with fewer than MaxCallers entries behind it.)
NoInsertLost ==
    AtRest =>
        \A t \in Callers :
            (threads[t].pc = "done"
               /\ threads[t].obs.timestamp >= now - RetentionHours) =>
                \E i \in DOMAIN observed_actions :
                    observed_actions[i] = threads[t].obs

\* C12: once the callers and the cleanup have finished, the cache holds at
\* most CacheLimit observations.
CacheBoundedAtRest == AtRest => Len(observed_actions) <= CacheLimit

\* an alert row and an observation row of one call
Corresponds(alert, row) ==
    /\ alert.user = row.user
    /\ alert.alert_type = row.action
    /\ alert.severity = row.risk_level
    /\ alert.timestamp = row.timestamp

\* every row of `from` can be given a row of `to` of its own
Paired(from, to, corresponds(_, _)) ==
    \E f \in [DOMAIN from -> DOMAIN to] :
        /\ \A i, j \in DOMAIN from : i # j => f[i] # f[j]
        /\ \A i \in DOMAIN from : corresponds(from[i], to[f[i]])

\* C23: after any calls of watch_action, failed ones included, every alert
\* row has an observation row of its own with its user, its alert_type as
\* action and its severity as risk_level, so that no observation row has
\* more than one alert.
EveryAlertHasItsObservation ==
    Paired(alerts, observations, Corresponds)

\* C23, but for the alert of a call whose observation write failed: a call
\* of watch_action adds at most one alert row; when it adds one and
\* save_observation does not fail, it adds one observation row, which has
\* the alert's user, its alert_type as action and its severity as
\* risk_level; it adds no observation row without that alert row; and at
\* all times every observation row has an alert row of its own.
EveryObservationHasItsAlert ==
    [][Called =>
        /\ Len(alerts') - Len(alerts) \in {0, 1}
        /\ Len(observations') - Len(observations) \in {0, 1}
        /\ (Len(alerts') > Len(alerts)
              /\ outcome' # "save_observation raised") =>
                /\ Len(observations') > Len(observations)
                /\ Corresponds(alerts'[Len(alerts')],
                               observations'[Len(observations')])
        /\ Len(observations') > Len(observations) =>
              Len(alerts') > Len(alerts)
        /\ Paired(observations', alerts',
                  LAMBDA row, alert : Corresponds(alert, row))]_vars

\* a call was recorded with its alert after an earlier call had left an
\* alert without an observation
AlertLeftAlone ==
    /\ outcome = "returned"
    /\ Len(alerts) = 2
    /\ Len(observations) = 1
    /\ Corresponds(alerts[2], observations[1])

\* C27: a run of _cleanup_old_observations leaves in the cache every entry
\* whose timestamp is at or after now - 7 days, once each and in the order
\* they had, and nothing else; it leaves the statistics as they were.
SweepKeepsTheFresh ==
    [][Sweep =>
        /\ observed_actions' = Selected(observed_actions,
              {i \in DOMAIN observed_actions :
                 observed_actions[i].timestamp >= now - RetentionHours})
        /\ stats' = stats]_vars

\* a sweep dropped an older entry and kept the entry exactly 7 days old, with
\* the counters still counting both
OldestSweptOnly ==
    /\ outcome = "swept"
    /\ Len(observed_actions) = 1
    /\ observed_actions[1].timestamp = now - RetentionHours
    /\ Counter(stats, "total_observations") = 2

\* C21: the statements of watch_action take effect in their order. The
\* observation a caller holds has the risk level of the classification the
\* caller made, and once the decision is taken its alert_triggered is the
\* decision; an observation row is written only after the alert row of its
\* call, so the alerts are never fewer than the observation rows and every
\* observation row has an alert row of its own with its user, action and
\* risk level; an observation is appended to the cache only after its row
\* is written, so the rows are never fewer than the appended entries.
StatementsInOrder ==
    /\ \A t \in Callers :
          /\ threads[t].pc \notin {"idle", "construct"} =>
                threads[t].obs.risk_level = threads[t].result.risk_level
          /\ threads[t].pc \notin {"idle", "construct", "decide"} =>
                threads[t].obs.alert_triggered = threads[t].alerting
    /\ Len(alerts) >= Len(observations)
    /\ Len(observations) >= Len(observed_actions)
    /\ Paired(observations, alerts,
              LAMBDA row, alert : /\ alert.user = row.user
                                  /\ alert.alert_type = row.action
                                  /\ alert.severity = row.risk_level)

\* both callers have written their alert, one has written its observation,
\* and neither has reached the cache
AlertsAheadOfRows ==
    /\ \A t \in Callers : threads[t].pc \in {"save", "append"}
    /\ Len(alerts) = MaxCallers
    /\ Len(observations) = 1
    /\ observed_actions = <<>>

\* C22: once a caller has constructed its observation, no step changes the
\* risk_level or the alert_triggered of that observation.
FieldsSetOnce ==
    [][\A t \in Callers :
         threads[t].pc \notin {"idle", "construct"} =>
            /\ threads'[t].obs.risk_level = threads[t].obs.risk_level
            /\ threads'[t].obs.alert_triggered
                  = threads[t].obs.alert_triggered]_vars

\* C24: the timestamps of the cache entries never decrease from one entry
\* to the next.
CacheInTimestampOrder ==
    \A i, j \in DOMAIN observed_actions :
        i < j => observed_actions[i].timestamp <= observed_actions[j].timestamp

\* C28: every cache entry has a row in the observations table with its
\* timestamp, user, action, context, risk level and flags.
CachedIsPersisted ==
    \A i \in DOMAIN observed_actions :
        \E k \in DOMAIN observations :
            observations[k] = ObservationRow(k, observed_actions[i])

\* both calls are saved, 7 days apart, and only the first is in the cache yet
SavedNotYetCached ==
    /\ Len(observations) = 2
    /\ Len(observed_actions) = 1
    /\ TextBefore(observations[1].timestamp, observations[2].timestamp)
    /\ \E t \in Callers : threads[t].pc = "append"

\* C29: once every caller has left watch_action, total_observations is the
\* number of calls that returned, it is the sum of the four risk counters,
\* and total_alerts is the number of calls that returned an observation
\* with alert_triggered set.
CountersExact ==
    (\A t \in Callers : threads[t].pc \in Finished) =>
        LET completed == {t \in Callers : threads[t].pc = "done"}
        IN  /\ Counter(stats, "total_observations") = Cardinality(completed)
            /\ Counter(stats, "total_observations") =
                  Counter(stats, "risk_low") + Counter(stats, "risk_medium")
                    + Counter(stats, "risk_high")
                    + Counter(stats, "risk_critical")
            /\ Counter(stats, "total_alerts") =
                  Cardinality({t \in completed :
                                 threads[t].obs.alert_triggered})

\* the cache holds an entry older than the horizon
HasStale ==
    \E i \in DOMAIN observed_actions :
        observed_actions[i].timestamp < now - RetentionHours

\* the monitor threads that have not left their loop
Active == {m \in DOMAIN monitors : monitors[m] # "ended"}

\* shutdown was requested: monitoring was started and the flag is cleared
ShutDown == monitor_threads > 0 /\ ~is_monitoring

\* C25: for the lifetime of an engine, which ends when shutdown is
\* requested, whenever the cache holds an entry older than the horizon a
\* sweep eventually leaves it without one.
StaleEventuallySwept == HasStale ~> (~HasStale \/ ShutDown)

\* C25, from the first call of start_monitoring on: once start_monitoring
\* has been called, whenever the cache holds an entry older than the
\* horizon a sweep eventually leaves it without one, unless shutdown is
\* requested first.
StaleEventuallySweptOnceStarted ==
    (HasStale /\ monitor_threads > 0) ~> (~HasStale \/ ShutDown)

\* a monitor thread has swept the cache empty of calls that were recorded
MonitorSweptTheCache ==
    /\ outcome = "swept"
    /\ is_monitoring
    /\ observed_actions = <<>>
    /\ Len(observations) = MaxAlerts
    /\ now > RetentionHours

\* C26: a monitor thread begins a sweep only while is_monitoring is true:
\* no sweep begins after shutdown was requested.
NoSweepAfterShutdown ==
    [][\A m \in DOMAIN monitors :
         (monitors[m] = "sleep" /\ monitors'[m] = "test") => is_monitoring]_vars

\* C30: at most one _background_monitor loop is active.
OneMonitorAtMost == Cardinality(Active) <= 1
====
